---- MODULE Spec2Model ----
(***************************************************************************)
(* CanvasAnimation (client/pixi/core/interaction/canvas-animation.js).     *)
(*                                                                         *)
(* The state is the static registry CanvasAnimation.animations, the        *)
(* animation objects created by animate() with the three promises each of  *)
(* them owns (the promise built by new Promise, the one returned by        *)
(* .catch and the one returned by .finally), the listener list of the      *)
(* PIXI ticker, the microtask queue of the JavaScript event loop and the   *)
(* object whose attributes are animated.                                   *)
(*                                                                         *)
(* JavaScript runs one synchronous turn at a time.  A frame of the ticker  *)
(* is one turn: the ticker calls its listeners one after the other and no  *)
(* promise reaction runs between two of them.  Promise reactions are       *)
(* microtasks: they run, first in first out, once the turn that queued     *)
(* them has returned.                                                      *)
(***************************************************************************)
EXTENDS Integers, Sequences, FiniteSets, TLC

(* ---------------------------------------------------------------------- *)
(* Bounds                                                                  *)
(* ---------------------------------------------------------------------- *)

\* animate() calls that construct an animation object, per behaviour
MaxSessions == 2

(* ---------------------------------------------------------------------- *)
(* Numbers: JavaScript numbers are modelled as exact fractions n/d, d > 0  *)
(* ---------------------------------------------------------------------- *)

RECURSIVE GCD(_, _)
GCD(a, b) == IF b = 0 THEN a ELSE GCD(b, a % b)

Abs(n) == IF n < 0 THEN -n ELSE n

Num(n, d) ==
  LET g == GCD(Abs(n), d)
  IN  [k |-> "num", n |-> n \div g, d |-> d \div g]

Whole(n) == Num(n, 1)

Add(a, b) == Num(a.n * b.d + b.n * a.d, a.d * b.d)
Sub(a, b) == Num(a.n * b.d - b.n * a.d, a.d * b.d)
Mul(a, b) == Num(a.n * b.n, a.d * b.d)

One == Whole(1)
Zero == Whole(0)

\* the value of a missing option or field
Undefined == [k |-> "undefined", n |-> 0, d |-> 1]

\* a value of the Color class (a Number subclass)
Color(n) == [k |-> "color", n |-> n, d |-> 1]

(* ---------------------------------------------------------------------- *)
(* Inputs                                                                  *)
(* ---------------------------------------------------------------------- *)

NoName == "-"
Names == {"X"}

\* attributes of the animated object; writing "z" raises (a setter that throws)
Props == {"x", "y", "z"}
ThrowingProps == {"z"}

\* milliseconds the ticker reports for a frame (ticker.elapsedMS)
Deltas == {4, 6}

Desc(p, to, from) == [attribute |-> p, to |-> to, from |-> from]

\* the lists animated: one attribute, two attributes, a list whose second
\* attribute raises when written, a list whose deltas are all zero, no attribute
AttributeLists ==
  { <<Desc("x", Whole(10), Undefined)>>,
    <<Desc("x", Whole(10), Undefined), Desc("y", Whole(5), Whole(1))>>,
    <<Desc("x", Whole(10), Undefined), Desc("z", Whole(5), Undefined), Desc("y", Whole(5), Undefined)>>,
    <<Desc("y", Whole(3), Whole(3))>>,
    <<>> }

\* the easing option: absent, or a function of the caller (here pt -> pt * pt)
Easings == {"none", "quad"}

\* the ontick option: absent, a hook that throws, a hook that calls
\* terminateAnimation("X"), a hook that calls animate(..., {name: "X"})
OnTicks == {"none", "throw", "terminate", "animate"}

Durations == {0, 10}

Request(name, attributes, duration, easing, ontick) ==
  [name |-> name, attributes |-> attributes, duration |-> duration,
   easing |-> easing, ontick |-> ontick]

\* the request an "animate" hook makes
HookRequest == Request("X", <<Desc("x", Whole(20), Undefined)>>, 10, "none", "none")
HookName == "X"

\* the options of the animate() calls of a behaviour: the plain request with
\* each list, each hook under each duration (from a given start, so that the
\* delta is never zero), the easing function, the list with the raising
\* attribute and a throwing hook under duration 0, a negative duration, a
\* colour, and two attributes with a hook under duration 0
Plain == <<Desc("x", Whole(10), Undefined)>>
Restart == <<Desc("x", Whole(10), Whole(0))>>
Raising == <<Desc("x", Whole(10), Undefined), Desc("z", Whole(5), Undefined), Desc("y", Whole(5), Undefined)>>
Two == <<Desc("x", Whole(10), Undefined), Desc("y", Whole(5), Whole(1))>>
Tint == <<Desc("y", Color(8), Whole(2))>>

NamedRequests ==
  { Request("X", l, 10, "none", "none") : l \in AttributeLists }
  \cup { Request("X", Restart, d, "none", o) : d \in Durations, o \in OnTicks }
  \cup { Request("X", Plain, 10, e, "none") : e \in Easings }
  \cup { Request("X", Raising, 0, "none", "throw") }
  \cup { Request("X", Restart, -10, "none", "none") }
  \cup { Request("X", Tint, 10, "none", "none") }

UnnamedRequests ==
  { Request(NoName, l, 10, "none", "none") : l \in {Plain, <<Desc("y", Whole(3), Whole(3))>>} }
  \cup { Request(NoName, Restart, 10, "none", o) : o \in {"terminate", "animate"} }
  \cup { Request(NoName, Two, 0, "none", "terminate") }

Requests == NamedRequests \cup UnnamedRequests

(* ---------------------------------------------------------------------- *)
(* State                                                                   *)
(* ---------------------------------------------------------------------- *)

VARIABLES
  anims,       \* the animation objects ever constructed, by identity 1..Len
  animations,  \* CanvasAnimation.animations: name -> identity, 0 when absent
  ticker,      \* the ticker's listeners (animation.fn), in calling order
  cursor,      \* position in ticker of the next listener of the running frame, 0 between frames
  elapsedMS,   \* ticker.elapsedMS of the running frame
  jobs,        \* the microtask queue: <<identity, "catch" | "finally">>
  parent,      \* the animated object: attribute -> value
  console,     \* what console.error has printed
  reported,    \* per animation, the sum of the elapsedMS of the frames that called it
  returned,    \* what the call returned when the last step was a caller's call:
               \* "promise" or "undefined" for animate, "void" for
               \* terminateAnimation; "" otherwise
  view         \* the server side of the license view: global.config.license,
               \* global.config.app, the process, and the last request handled

vars == <<anims, animations, ticker, cursor, elapsedMS, jobs, parent, console, reported, returned, view>>

Pending == <<"pending", "">>
Fulfilled(v) == <<"fulfilled", v>>
Rejected(e) == <<"rejected", e>>

\* the program state as one value, threaded through the calls of a turn
Cur ==
  [anims |-> anims, animations |-> animations, ticker |-> ticker, jobs |-> jobs,
   parent |-> parent, console |-> console,
   events |-> <<>>,     \* what the turn has done so far
   err |-> "",          \* the error the try block of #animateFrame has raised
   pa |-> Undefined,    \* the percentage #animateFrame has computed
   ret |-> ""]          \* what animate() has returned

Install(h) ==
  /\ anims' = h.anims
  /\ animations' = h.animations
  /\ ticker' = h.ticker
  /\ jobs' = h.jobs
  /\ parent' = h.parent
  /\ console' = h.console

(* ---------------------------------------------------------------------- *)
(* Promises                                                                *)
(* ---------------------------------------------------------------------- *)

Log(h, e) == [h EXCEPT !.events = Append(@, e)]

\* Settle with every call settling anew
SettleAgain(h, s, out) ==
  [Log(h, "settle") EXCEPT !.anims[s].outcome = out, !.jobs = Append(@, <<s, "catch">>)]

\* animation.resolve / animation.reject: the resolving functions of the promise
\* built by new Promise.  Only the first call settles it; settling queues the
\* reaction that .catch registered.
Settle(h, s, out) ==
  IF h.anims[s].outcome = Pending
    THEN [Log(h, "settle") EXCEPT
           !.anims[s].outcome = out, !.jobs = Append(@, <<s, "catch">>)]
    ELSE h

(* ---------------------------------------------------------------------- *)
(* terminateAnimation                                                      *)
(* ---------------------------------------------------------------------- *)

\* terminateAnimation that leaves the animation running
terminateNothing(h, name) == h

\* terminateAnimation that, finding no entry, ends the first listener of the ticker
terminateFallback(h, name) ==
  LET animation == h.animations[name]
  IN  IF animation # 0 THEN Settle(h, animation, Fulfilled("false"))
      ELSE IF h.ticker # <<>> THEN Settle(h, h.ticker[1], Fulfilled("false"))
      ELSE h

terminateAnimation(h, name) ==
  LET animation == h.animations[name]
  IN  IF animation # 0 THEN Settle(h, animation, Fulfilled("false")) ELSE h

(* ---------------------------------------------------------------------- *)
(* animate                                                                 *)
(* ---------------------------------------------------------------------- *)

IsColor(v) == v.k = "color"

\* Color.from
ColorFrom(v) == [k |-> "color", n |-> v.n, d |-> v.d]

\* attributes.map(a => ...)
MapAttribute(obj, a) ==
  LET from == IF a.from = Undefined THEN obj[a.attribute] ELSE a.from
  IN  [attribute |-> a.attribute,
       to |-> a.to,
       from |-> IF IsColor(a.to) THEN ColorFrom(from) ELSE from,
       delta |-> Sub(a.to, from),
       done |-> Zero,
       color |-> IsColor(a.to)]

MapAttributes(obj, attributes) ==
  [i \in 1..Len(attributes) |-> MapAttribute(obj, attributes[i])]

\* AllZero with the short circuit missing
AllZeroSkipped(attributes) == FALSE

\* AllZero without the test of the length: true of the empty list
AllZeroOrEmpty(attributes) ==
  \A i \in 1..Len(attributes) : attributes[i].delta = Zero

\* attributes.length && attributes.every(a => a.delta === 0)
AllZero(attributes) ==
  /\ Len(attributes) # 0
  /\ \A i \in 1..Len(attributes) : attributes[i].delta = Zero

\* does animate(req) return before it constructs an animation object
IsNoop(h, req) == AllZero(MapAttributes(h.parent, req.attributes))

NewAnimation(req, attributes) ==
  [attributes |-> attributes, duration |-> req.duration, easing |-> req.easing,
   name |-> req.name, ontick |-> req.ontick, time |-> 0,
   events |-> <<>>,        \* what the last call of animation.fn did, in order
   pa |-> Undefined,       \* the percentage the last call of animation.fn applied
   outcome |-> Pending,    \* the promise built by new Promise
   caught |-> Pending,     \* the promise returned by .catch
   promise |-> Pending]    \* the promise returned by .finally, which animate returns

\* animate without the termination of the animation that holds the name
animateKeepOld(h, req) ==
  LET attributes == MapAttributes(h.parent, req.attributes)
      id == Len(h.anims) + 1
  IN  IF AllZero(attributes)
        THEN [h EXCEPT !.ret = "undefined"]
        ELSE [h EXCEPT
               !.ret = "promise",
               !.anims = Append(@, NewAnimation(req, attributes)),
               !.ticker = Append(@, id),
               !.animations = IF req.name # NoName
                                THEN [@ EXCEPT ![req.name] = id]
                                ELSE @]

\* animate that resolves at once when the duration is not positive
animateSkipInstant(h, req) ==
  LET h1 == IF req.name # NoName THEN terminateAnimation(h, req.name) ELSE h
      attributes == MapAttributes(h1.parent, req.attributes)
      id == Len(h1.anims) + 1
  IN  IF AllZero(attributes) \/ req.duration <= 0
        THEN [h1 EXCEPT !.ret = "undefined"]
        ELSE [h1 EXCEPT
               !.ret = "promise",
               !.anims = Append(@, NewAnimation(req, attributes)),
               !.ticker = Append(@, id),
               !.animations = IF req.name # NoName
                                THEN [@ EXCEPT ![req.name] = id]
                                ELSE @]

animate(h, req) ==
  LET h1 == IF req.name # NoName THEN terminateAnimation(h, req.name) ELSE h
      attributes == MapAttributes(h1.parent, req.attributes)
      id == Len(h1.anims) + 1
  IN  IF AllZero(attributes)
        THEN [h1 EXCEPT !.ret = "undefined"]
        ELSE [h1 EXCEPT
               !.ret = "promise",
               !.anims = Append(@, NewAnimation(req, attributes)),
               !.ticker = Append(@, id),
               !.animations = IF req.name # NoName
                                THEN [@ EXCEPT ![req.name] = id]
                                ELSE @]

(* ---------------------------------------------------------------------- *)
(* #updateAttribute and #animateFrame                                      *)
(* ---------------------------------------------------------------------- *)

\* from.mix(to, percentage) of the Color class
Mix(from, to, percentage) ==
  LET v == Add(from, Mul(Sub(to, from), percentage))
  IN  [k |-> "color", n |-> v.n, d |-> v.d]

\* UpdateValue that treats every attribute as a number
UpdateValueNumeric(a, percentage) ==
  IF percentage = One THEN a.to ELSE Add(a.from, Mul(a.delta, percentage))

\* the value #updateAttribute writes to attribute.parent[attribute.attribute]
UpdateValue(a, percentage) ==
  IF percentage = One THEN a.to
  ELSE IF a.color THEN Mix(a.from, a.to, percentage)
  ELSE Add(a.from, Mul(a.delta, percentage))

\* #updateAttribute for attribute i of animation s; err names what it raised
updateAttribute(h, s, i, percentage) ==
  LET a == h.anims[s].attributes[i]
      h1 == [h EXCEPT !.anims[s].attributes[i].done = Mul(a.delta, percentage)]
      h2 == IF percentage # One /\ a.color THEN Log(h1, "mix:" \o a.attribute) ELSE h1
  IN  IF a.attribute \in ThrowingProps
        THEN [Log(h2, "raise:" \o a.attribute) EXCEPT !.err = "SetterError"]
        ELSE [Log(h2, "write:" \o a.attribute) EXCEPT
               !.parent[a.attribute] = UpdateValue(a, percentage)]

\* UpdateFrom that goes on with the next attribute after a raise
RECURSIVE UpdateFromAll(_, _, _, _)
UpdateFromAll(h, s, i, percentage) ==
  IF i > Len(h.anims[s].attributes)
    THEN h
    ELSE UpdateFromAll(updateAttribute(h, s, i, percentage), s, i + 1, percentage)

\* for ( let a of attributes ) #updateAttribute(a, pa), left by the first raise
RECURSIVE UpdateFrom(_, _, _, _)
UpdateFrom(h, s, i, percentage) ==
  IF i > Len(h.anims[s].attributes) \/ h.err # ""
    THEN h
    ELSE UpdateFrom(updateAttribute(h, s, i, percentage), s, i + 1, percentage)

\* the easing option applied to the proportion of the duration
Ease(easing, pt) == IF easing = "quad" THEN Mul(pt, pt) ELSE pt

\* Progress without the forcing to 1 at completion
ProgressRaw(time, duration, easing) ==
  IF duration <= 0 THEN One ELSE Ease(easing, Num(time, duration))

\* const pa = complete ? 1 : (animation.easing ? animation.easing(pt) : pt)
Progress(time, duration, easing) ==
  IF time >= duration THEN One ELSE Ease(easing, Num(time, duration))

\* if ( ontick ) ontick(dt, animation)
CallOnTick(h, s) ==
  LET ontick == h.anims[s].ontick
      h1 == Log(h, "ontick")
  IN  CASE ontick = "none" -> h
        [] ontick = "throw" -> [h1 EXCEPT !.err = "HookError"]
        [] ontick = "terminate" -> terminateAnimation(h1, HookName)
        [] ontick = "animate" ->
             IF Len(h1.anims) < MaxSessions THEN animate(h1, HookRequest) ELSE h1

\* animateFrame that resolves a complete animation before it updates it
animateFrameResolveFirst(h, s, dt) ==
  LET time == h.anims[s].time + dt
      duration == h.anims[s].duration
      complete == time >= duration
      pa == Progress(time, duration, h.anims[s].easing)
      h0 == [h EXCEPT !.anims[s].time = time, !.pa = pa]
      h1 == IF complete THEN Settle(Log(h0, "resolve"), s, Fulfilled("true")) ELSE h0
      h2 == UpdateFrom(h1, s, 1, pa)
      h3 == IF h2.err = "" THEN CallOnTick(h2, s) ELSE h2
  IN  IF h3.err # "" THEN Settle(Log(h3, "reject"), s, Rejected(h3.err)) ELSE h3

\* animateFrame that calls ontick before the attributes are updated
animateFrameHookFirst(h, s, dt) ==
  LET time == h.anims[s].time + dt
      duration == h.anims[s].duration
      complete == time >= duration
      pa == Progress(time, duration, h.anims[s].easing)
      h0 == [h EXCEPT !.anims[s].time = time, !.pa = pa]
      h1 == CallOnTick(h0, s)
      h2 == IF h1.err = "" THEN UpdateFrom(h1, s, 1, pa) ELSE h1
      h3 == IF h2.err # "" THEN Settle(Log(h2, "reject"), s, Rejected(h2.err)) ELSE h2
  IN  IF complete THEN Settle(Log(h3, "resolve"), s, Fulfilled("true")) ELSE h3

animateFrame(h, s, dt) ==
  LET time == h.anims[s].time + dt
      duration == h.anims[s].duration
      complete == time >= duration
      pa == Progress(time, duration, h.anims[s].easing)
      h0 == [h EXCEPT !.anims[s].time = time, !.pa = pa]
      h1 == UpdateFrom(h0, s, 1, pa)
      h2 == IF h1.err = "" THEN CallOnTick(h1, s) ELSE h1
      h3 == IF h2.err # "" THEN Settle(Log(h2, "reject"), s, Rejected(h2.err)) ELSE h2
  IN  IF complete THEN Settle(Log(h3, "resolve"), s, Fulfilled("true")) ELSE h3

(* ---------------------------------------------------------------------- *)
(* The reactions of .catch and .finally                                    *)
(* ---------------------------------------------------------------------- *)

\* catchReaction that prints the rejection and lets it through
catchRethrow(h, s) ==
  LET outcome == h.anims[s].outcome
      h1 == IF outcome[1] = "rejected"
              THEN [h EXCEPT !.console = Append(@, outcome[2]),
                             !.anims[s].caught = outcome]
              ELSE [h EXCEPT !.anims[s].caught = outcome]
  IN  [h1 EXCEPT !.jobs = Append(@, <<s, "finally">>)]

\* .catch(err => console.error(err)): a rejection is printed and becomes a
\* fulfilment with the handler's return value; a fulfilment passes through
catchReaction(h, s) ==
  LET outcome == h.anims[s].outcome
      h1 == IF outcome[1] = "rejected"
              THEN [h EXCEPT !.console = Append(@, outcome[2]),
                             !.anims[s].caught = Fulfilled("undefined")]
              ELSE [h EXCEPT !.anims[s].caught = outcome]
  IN  [h1 EXCEPT !.jobs = Append(@, <<s, "finally">>)]

Remove(seq, x) == SelectSeq(seq, LAMBDA y : y # x)

\* finallyReaction that deletes the entry of the name whatever it holds
finallyAlwaysDelete(h, s) ==
  LET name == h.anims[s].name
  IN  [h EXCEPT
        !.ticker = SelectSeq(@, LAMBDA y : y # s),
        !.animations = IF name # NoName THEN [@ EXCEPT ![name] = 0] ELSE @,
        !.anims[s].promise = h.anims[s].caught]

\* .finally(() => {...}): the listener leaves the ticker, the registry entry is
\* deleted when it still holds this animation, and the returned promise settles
\* finallyReaction that removes the listener and never deletes the entry
finallyKeepEntry(h, s) ==
  [h EXCEPT !.ticker = Remove(@, s), !.anims[s].promise = h.anims[s].caught]

finallyReaction(h, s) ==
  LET name == h.anims[s].name
      wasCompleted == name # NoName /\ h.animations[name] = s
  IN  [h EXCEPT
        !.ticker = Remove(@, s),
        !.animations = IF wasCompleted THEN [@ EXCEPT ![name] = 0] ELSE @,
        !.anims[s].promise = h.anims[s].caught]

(* ---------------------------------------------------------------------- *)
(* Turns                                                                   *)
(* ---------------------------------------------------------------------- *)

Index(seq, x) == CHOOSE i \in 1..Len(seq) : seq[i] = x

(* ---------------------------------------------------------------------- *)
(* LicenseView (server/views/license.mjs)                                  *)
(* ---------------------------------------------------------------------- *)

\* license keys a POST may carry in body.licenseKey; NoKey is null/undefined
Keys == {"k1", "k2"}
NoKey == "null"

\* the status of the object License.sign() resolves to
Statuses == {"success", "error", "other"}

\* req.body: the licenseKey field and whether "decline" is a field of it
Body(licenseKey, decline) == [licenseKey |-> licenseKey, decline |-> decline]
Bodies == { Body(k, d) : k \in Keys \cup {NoKey}, d \in BOOLEAN }

\* no request handled yet
NoRequest == [method |-> "", step |-> "", decline |-> FALSE]

\* config.license holds the key `license` (NoKey when none is stored) and
\* needsSignature; app tells whether config.app exists; proc is the state of
\* the server process; message, response, calls are what the last request
\* left: the session message, the response sent, the calls made in order
Configuration(license, needsSignature, app) ==
  [license |-> license, needsSignature |-> needsSignature, app |-> app,
   proc |-> "running", message |-> "", response |-> "", calls |-> <<>>,
   request |-> NoRequest]

\* n.applyLicense(key): stores the key; null clears the stored license
applyLicense(v, key) ==
  [v EXCEPT !.license = key, !.calls = Append(@, "applyLicense:" \o key)]

\* n.applyLicense(key) that throws: nothing is stored
applyLicenseThrows(v, key) ==
  [v EXCEPT !.calls = Append(@, "applyLicense:" \o key)]

\* await n.sign(), resolving to an object of the given status; a signed
\* license needs no signature any more
sign(v, status) ==
  [v EXCEPT !.calls = Append(@, "sign"),
            !.needsSignature = IF status = "success" THEN FALSE ELSE @]

\* sessions.setMessage(e, s, level, ...)
setMessage(v, level) == [v EXCEPT !.message = level]

\* s.redirect(url)
redirect(v, url) == [v EXCEPT !.response = "redirect:" \o url]

\* this.#e(e, s, step): s.render of the template for the step
render(v, step) == [v EXCEPT !.response = "render:" \o step]

\* t.app ? t.app.quit() : process.exit().  app.quit() asks the application to
\* close and returns to its caller; process.exit() does not return.
quit(v) ==
  IF v.app
    THEN [v EXCEPT !.calls = Append(@, "app.quit"), !.proc = "quitting"]
    ELSE [v EXCEPT !.calls = Append(@, "process.exit"), !.proc = "exited"]

\* const n = t.license ? "eula" : "key"
Step(v) == IF v.license # NoKey THEN "eula" ELSE "key"

handleGet(v) ==
  IF ~v.needsSignature THEN redirect(v, "/") ELSE render(v, Step(v))

\* handlePost; accepted tells whether applyLicense(body.licenseKey) returns
\* or throws, status is the status sign() resolves to
handlePost(v, body, accepted, status) ==
  IF ~v.needsSignature THEN redirect(v, "/")
  ELSE IF Step(v) = "key"
    THEN IF accepted
           THEN render(setMessage(applyLicense(v, body.licenseKey), "info"), "eula")
           ELSE render(setMessage(applyLicenseThrows(v, body.licenseKey), "error"), "key")
    ELSE LET v1 == IF body.decline THEN quit(applyLicense(v, NoKey)) ELSE v
         IN  IF v1.proc = "exited"
               THEN v1
               ELSE LET v2 == sign(v1, status)
                    IN  CASE status = "success" ->
                               redirect(setMessage(v2, "info"), "/setup")
                          [] status = "error" ->
                               redirect(applyLicense(setMessage(v2, "error"), NoKey), "/license")
                          [] OTHER -> render(v2, "eula")

\* the request as the handler finds it: nothing called or sent yet; step is
\* the step of the view it meets, "" when no signature is needed
Arrive(method, decline) ==
  [view EXCEPT !.calls = <<>>, !.response = "",
               !.request = [method |-> method,
                            step |-> IF view.needsSignature THEN Step(view) ELSE "",
                            decline |-> decline]]

(* ---------------------------------------------------------------------- *)
(* Behaviours                                                              *)
(* ---------------------------------------------------------------------- *)

Init ==
  /\ view = Configuration(NoKey, TRUE, FALSE)
  /\ anims = <<>>
  /\ animations = [n \in Names |-> 0]
  /\ ticker = <<>>
  /\ cursor = 0
  /\ elapsedMS = 0
  /\ jobs = <<>>
  /\ parent = [p \in Props |-> Zero]
  /\ console = <<>>
  /\ reported = <<>>
  /\ returned = ""

\* a caller's CanvasAnimation.animate(attributes, options), outside a frame
Animate(req) ==
  /\ cursor = 0
  /\ IsNoop(Cur, req) \/ Len(anims) < MaxSessions
  /\ LET h == animate(Cur, req)
     IN  /\ Install(h)
         /\ reported' = [i \in 1..Len(h.anims) |-> IF i <= Len(anims) THEN reported[i] ELSE 0]
         /\ returned' = h.ret
  /\ UNCHANGED <<cursor, elapsedMS, view>>

\* a caller's CanvasAnimation.terminateAnimation(name), outside a frame
Terminate(name) ==
  /\ cursor = 0
  /\ Install(terminateAnimation(Cur, name))
  /\ returned' = "void"
  /\ UNCHANGED <<cursor, elapsedMS, reported, view>>

\* the ticker begins a frame: it has measured elapsedMS and will call its
\* listeners from the first on.  A frame is a task: no microtask is waiting.
StartFrame(dt) ==
  /\ cursor = 0
  /\ jobs = <<>>
  /\ ticker # <<>>
  /\ cursor' = 1
  /\ elapsedMS' = dt
  /\ returned' = ""
  /\ UNCHANGED <<anims, animations, ticker, jobs, parent, console, reported, view>>

\* the ticker calls the next listener of the frame: animation.fn(dt)
Tick ==
  /\ cursor # 0
  /\ LET s == ticker[cursor]
         h == animateFrame(Cur, s, elapsedMS)
         next == Index(h.ticker, s) + 1
     IN  /\ Install([h EXCEPT !.anims[s].events = h.events, !.anims[s].pa = h.pa])
         /\ cursor' = IF next > Len(h.ticker) THEN 0 ELSE next
         /\ reported' = [i \in 1..Len(h.anims) |->
                           IF i > Len(anims) THEN 0
                           ELSE IF i = s THEN reported[i] + elapsedMS
                           ELSE reported[i]]
  /\ returned' = ""
  /\ UNCHANGED <<elapsedMS, view>>

\* the event loop runs the first microtask, between two turns
RunJob ==
  /\ cursor = 0
  /\ jobs # <<>>
  /\ LET s == Head(jobs)[1]
         h == [Cur EXCEPT !.jobs = Tail(@)]
     IN  Install(IF Head(jobs)[2] = "catch" THEN catchReaction(h, s) ELSE finallyReaction(h, s))
  /\ returned' = ""
  /\ UNCHANGED <<cursor, elapsedMS, reported, view>>

Next ==
  \/ \E req \in Requests : Animate(req)
  \/ \E name \in Names : Terminate(name)
  \/ \E dt \in Deltas : StartFrame(dt)
  \/ Tick
  \/ RunJob

Spec == Init /\ [][Next]_vars

\* Tick seen on the cursor alone: within a frame the only step is Tick, and
\* it moves the cursor to the next listener or back to 0
ListenerCalled == cursor # 0 /\ cursor' \in 0..(MaxSessions + 1)

\* RunJob seen on the queue alone: the first reaction leaves the queue, and a
\* .catch reaction queues the .finally reaction behind the others
ReactionRun ==
  /\ cursor = 0
  /\ jobs # <<>>
  /\ jobs' \in {Tail(jobs), Append(Tail(jobs), <<Head(jobs)[1], "finally">>)}

\* the ticker keeps delivering frames and calls every listener of a frame,
\* the event loop runs every queued reaction.  Under Next a step of
\* ListenerCalled that changes the cursor is a step of Tick, a step of
\* ReactionRun that changes the queue is a step of RunJob, and each is
\* enabled exactly when Tick, RunJob is.
Fairness ==
  /\ WF_vars(\E dt \in Deltas : StartFrame(dt))
  /\ WF_cursor(ListenerCalled)
  /\ WF_jobs(ReactionRun)

LiveSpec == Init /\ [][Next]_vars /\ Fairness

\* the server with a license configuration, answering requests of the license
\* view; no animation runs
LicenseInit ==
  /\ view \in { Configuration(l, n, a) : l \in Keys \cup {NoKey}, n \in BOOLEAN, a \in BOOLEAN }
  /\ anims = <<>>
  /\ animations = [n \in Names |-> 0]
  /\ ticker = <<>>
  /\ cursor = 0
  /\ elapsedMS = 0
  /\ jobs = <<>>
  /\ parent = [p \in Props |-> Zero]
  /\ console = <<>>
  /\ reported = <<>>
  /\ returned = ""

\* GET /license
HandleGet ==
  /\ view.proc # "exited"
  /\ view' = handleGet(Arrive("get", FALSE))
  /\ UNCHANGED <<anims, animations, ticker, cursor, elapsedMS, jobs, parent, console,
                 reported, returned>>

\* POST /license
HandlePost(body, accepted, status) ==
  /\ view.proc # "exited"
  /\ view' = handlePost(Arrive("post", body.decline), body, accepted, status)
  /\ UNCHANGED <<anims, animations, ticker, cursor, elapsedMS, jobs, parent, console,
                 reported, returned>>

LicenseNext ==
  \/ HandleGet
  \/ \E body \in Bodies, accepted \in BOOLEAN, status \in Statuses :
       HandlePost(body, accepted, status)

LicenseSpec == LicenseInit /\ [][LicenseNext]_vars

TypeOK ==
  /\ Len(anims) <= MaxSessions
  /\ cursor \in 0..Len(ticker)

(* ---------------------------------------------------------------------- *)
(* Properties                                                              *)
(* ---------------------------------------------------------------------- *)

Ids == 1..Len(anims)

Has(events, e) == \E i \in 1..Len(events) : events[i] = e

\* the step, when it is not a stuttering one, is the ticker's call of s
TickOf(s) == cursor # 0 /\ ticker[cursor] = s

Outcomes ==
  {Pending, Fulfilled("true"), Fulfilled("false"), Rejected("SetterError"), Rejected("HookError")}

\* C1: the outcome of every animation is pending, completed(true),
\* cancelled(false) or failed(error), and once it is no longer pending no
\* later step (a terminate, a completion after an error in the same tick, a
\* completion after a terminate made by its own ontick) changes it.
C1_SettledOnce ==
  [][\A s \in Ids :
       /\ anims'[s].outcome \in Outcomes
       /\ anims[s].outcome # Pending => anims'[s].outcome = anims[s].outcome]_vars

\* one tick has called reject and then resolve(true) and the outcome is the
\* error; another has had its ontick terminate it and then called resolve(true)
\* and the outcome is false
C1_Witness ==
  \E s, t \in Ids :
    /\ Has(anims[s].events, "reject")
    /\ Has(anims[s].events, "resolve")
    /\ anims[s].outcome = Rejected("HookError")
    /\ anims[t].ontick = "terminate"
    /\ Has(anims[t].events, "resolve")
    /\ anims[t].outcome = Fulfilled("false")

\* the error a tick has raised, from what the tick did
Raised(events) == IF Has(events, "raise:z") THEN "SetterError" ELSE "HookError"

\* C2 as claimed: when a tick raises an error the result animate returned
\* settles as failed carrying that error.
C2_ResultFails ==
  \A s \in Ids :
    anims[s].outcome[1] = "rejected" /\ anims[s].promise # Pending
      => anims[s].promise = anims[s].outcome

\* C2 as amended: when a tick of a still pending animation raises an error,
\* the animation's own promise is rejected with that error, the error is
\* printed by console.error, and the result animate returned is fulfilled
\* with undefined: it is never rejected and is neither true nor false.
C2_ErrorIsLogged ==
  /\ [][\A s \in Ids :
          (/\ TickOf(s)
           /\ Has(anims'[s].events, "reject")
           /\ anims[s].outcome = Pending)
            => anims'[s].outcome = Rejected(Raised(anims'[s].events))]_vars
  /\ [](\A s \in Ids :
          /\ anims[s].promise[1] # "rejected"
          /\ anims[s].outcome[1] = "rejected" /\ anims[s].promise # Pending
               => /\ anims[s].promise = Fulfilled("undefined")
                  /\ Has(console, anims[s].outcome[2]))

\* an animation failed in a tick and its result has settled
C2_Witness ==
  \E s \in Ids :
    /\ anims[s].outcome = Rejected("SetterError")
    /\ anims[s].promise # Pending

\* C3 as claimed: once an animation has settled its frame callback is not
\* called again and none of its attributes is written again.
C3_NoCallAfterSettle ==
  [][\A s \in Ids :
       anims[s].outcome # Pending
         => /\ reported'[s] = reported[s]
            /\ anims'[s].events = anims[s].events]_vars

\* C4 as claimed: every entry of the registry is a named animation whose
\* outcome is pending.
C4_RegistryPending ==
  \A n \in Names :
    animations[n] # 0 =>
      /\ anims[animations[n]].name = n
      /\ anims[animations[n]].outcome = Pending

\* C5: when an animation is constructed under a name for which an animation is
\* still pending, the pending one settles false and at the end of the call the
\* registry maps the name to the new animation.
C5_ReplaceCancel ==
  [][\A a \in Ids :
       (/\ anims[a].name # NoName
        /\ anims[a].outcome = Pending
        /\ Len(anims') > Len(anims)
        /\ anims'[Len(anims')].name = anims[a].name)
         => /\ anims'[a].outcome = Fulfilled("false")
            /\ animations'[anims[a].name] = Len(anims')]_vars

\* the second animate("X") has just returned: the first, which had run for a
\* frame, is cancelled and its reaction is still queued
C5_Witness ==
  /\ returned = "promise"
  /\ Len(anims) = 2
  /\ anims[1].name = "X" /\ anims[2].name = "X"
  /\ anims[1].time > 0
  /\ anims[1].outcome = Fulfilled("false")
  /\ jobs = << <<1, "catch">> >>
  /\ animations["X"] = 2

\* C6: the cleanup of an animation changes the registry entry of its name only
\* when that entry still holds this animation.
C6_CleanupKeepsNewer ==
  [][\A s \in Ids : \A n \in Names :
       (/\ anims[s].promise = Pending
        /\ anims'[s].promise # Pending
        /\ animations'[n] # animations[n])
         => animations[n] = s]_vars

\* the cleanup of the replaced animation has run and the entry holds the newer
C6_Witness ==
  /\ Len(anims) = 2
  /\ anims[1].name = "X" /\ anims[2].name = "X"
  /\ anims[1].promise # Pending
  /\ anims[2].outcome = Pending
  /\ animations["X"] = 2

\* C7: for every name at most one animation constructed with that name is
\* pending.
C7_OnePendingPerName ==
  \A n \in Names :
    Cardinality({s \in Ids : anims[s].name = n /\ anims[s].outcome = Pending}) <= 1

\* two animations share a name, the older has settled, the newer is pending
C7_Witness ==
  /\ Len(anims) = 2
  /\ anims[1].name = "X" /\ anims[2].name = "X"
  /\ anims[1].outcome = Fulfilled("false")
  /\ anims[2].outcome = Pending

\* C8: in the step that settles an animation true, every attribute of its
\* list has the value `to` on the animated object.
C8_Convergence ==
  [][\A s \in Ids :
       anims[s].outcome = Pending /\ anims'[s].outcome = Fulfilled("true")
         => \A i \in 1..Len(anims[s].attributes) :
              parent'[anims[s].attributes[i].attribute] = anims[s].attributes[i].to]_vars

\* a two attribute animation has completed past its duration, and so has one
\* of duration 0
C8_Witness ==
  \E s, t \in Ids :
    /\ anims[s].outcome = Fulfilled("true")
    /\ Len(anims[s].attributes) = 2
    /\ anims[s].time > anims[s].duration
    /\ anims[t].outcome = Fulfilled("true")
    /\ anims[t].duration = 0

\* C9: the elapsed time of an animation is the sum of the deltas of the frames
\* that called it; a tick settles it true only when the elapsed time reaches
\* the duration for the first time, and a tick that reaches the duration
\* without raising or cancelling does settle it true; on that tick the
\* percentage applied is 1 and every attribute written has applied its whole
\* delta.
C9_ElapsedTime ==
  /\ [](\A s \in Ids : anims[s].time = reported[s])
  /\ [][\A s \in Ids :
          (TickOf(s) /\ anims[s].outcome = Pending) =>
            /\ anims'[s].outcome = Fulfilled("true")
                 => /\ anims'[s].time >= anims[s].duration
                    /\ anims[s].time < anims[s].duration \/ reported[s] = 0
            /\ (/\ anims'[s].time >= anims[s].duration
                /\ ~Has(anims'[s].events, "reject")
                /\ anims[s].ontick = "none")
                 => anims'[s].outcome = Fulfilled("true")
            /\ anims'[s].time >= anims[s].duration
                 => /\ anims'[s].pa = One
                    /\ \A i \in 1..Len(anims[s].attributes) :
                         Has(anims'[s].events, "write:" \o anims[s].attributes[i].attribute)
                           => /\ anims'[s].attributes[i].done = anims[s].attributes[i].delta
                              /\ parent'[anims[s].attributes[i].attribute]
                                   = anims[s].attributes[i].to]_vars

\* deltas 4, 4, 4 against duration 10: the third tick completes with percentage 1
C9_Witness ==
  \E s \in Ids :
    /\ reported[s] = 12
    /\ anims[s].duration = 10
    /\ anims[s].easing = "quad"
    /\ anims[s].outcome = Fulfilled("true")
    /\ anims[s].pa = One

\* a request whose list is not empty and whose every delta is zero
ZeroDeltas(req) ==
  /\ Len(req.attributes) > 0
  /\ \A i \in 1..Len(req.attributes) :
       req.attributes[i].to =
         IF req.attributes[i].from = Undefined
           THEN parent[req.attributes[i].attribute]
           ELSE req.attributes[i].from

\* C10: an animate request whose list is not empty and whose every delta is
\* zero adds no listener to the ticker, leaves the registry as it is,
\* constructs no animation, and returns a result that is already resolved.
C10_NoopShortCircuit ==
  [][\A req \in Requests :
       returned' \in {"promise", "undefined"} /\ ZeroDeltas(req) /\ Animate(req)
         => /\ ticker' = ticker
            /\ animations' = animations
            /\ Len(anims') = Len(anims)
            /\ returned' = "undefined"]_vars

\* a named request with zero deltas has returned while an animation is running
\* under that name
C10_Witness ==
  /\ returned = "undefined"
  /\ animations["X"] # 0
  /\ anims[animations["X"]].time > 0
  /\ Len(ticker) > 0

\* C11 as claimed: no animation whose duration is not positive is ever a
\* listener of the ticker.
C11_NeverRegistered ==
  \A i \in 1..Len(ticker) : anims[ticker[i]].duration > 0

\* C11 as amended: an animate request whose duration is not positive and whose
\* deltas are not all zero does add its listener to the ticker; the first call
\* of the listener applies the percentage 1 and, unless that call raises or
\* cancels it, settles the animation true.
C11_InstantOnFirstTick ==
  /\ [][\A req \in Requests :
          (/\ returned' \in {"promise", "undefined"}
           /\ req.duration <= 0
           /\ ~ZeroDeltas(req)
           /\ Animate(req))
            => /\ returned' = "promise"
               /\ Len(anims') = Len(anims) + 1
               /\ anims'[Len(anims')].duration = req.duration
               /\ ticker' = Append(ticker, Len(anims'))]_vars
  /\ [][\A s \in Ids :
          (TickOf(s) /\ anims[s].duration <= 0 /\ reported[s] = 0)
            => /\ anims'[s].pa = One
               /\ (/\ anims[s].outcome = Pending
                   /\ ~Has(anims'[s].events, "reject")
                   /\ anims[s].ontick = "none" \/ anims[s].name # HookName)
                    => anims'[s].outcome = Fulfilled("true")]_vars

\* an animation of negative duration has been called once and has settled true
C11_Witness ==
  \E s \in Ids :
    /\ anims[s].duration < 0
    /\ reported[s] > 0
    /\ anims[s].outcome = Fulfilled("true")
    /\ parent["x"] = Whole(10)

\* C12: terminateAnimation with a name that has no registry entry changes
\* nothing: the registry, every animation (outcome, elapsed time), the
\* listeners of the ticker, the queued reactions, the console and every
\* attribute value stay as they are.
C12_TerminateUnknown ==
  [][\A n \in Names :
       (returned' = "void" /\ animations[n] = 0 /\ Terminate(n))
         => UNCHANGED <<anims, animations, ticker, jobs, parent, console, reported>>]_vars

\* terminateAnimation has returned, the name has no entry and an unnamed
\* animation is running
C12_Witness ==
  /\ returned = "void"
  /\ animations["X"] = 0
  /\ \E s \in Ids : anims[s].outcome = Pending /\ anims[s].time > 0
  /\ ticker # <<>>

\* the events of one call of animation.fn that set (or tried to set) a property
SetEvents(events) ==
  SelectSeq(events, LAMBDA e : \E p \in Props : e \in {"write:" \o p, "raise:" \o p})

\* C13: in every call of an animation's function the properties are set in the
\* order of the attribute list, ontick is called only after every attribute
\* of the list has been set in that call, and on the completing call
\* resolve(true) comes after the sets and after ontick.
C13_TickOrder ==
  \A s \in Ids :
    LET events == anims[s].events
        sets == SetEvents(events)
        attributes == anims[s].attributes
    IN  /\ Len(sets) <= Len(attributes)
        /\ \A i \in 1..Len(sets) :
             sets[i] \in {"write:" \o attributes[i].attribute,
                          "raise:" \o attributes[i].attribute}
        /\ \A i \in 1..Len(events) :
             events[i] = "ontick"
               => /\ sets = [j \in 1..Len(attributes) |-> "write:" \o attributes[j].attribute]
                  /\ \A j \in 1..Len(events) :
                       (\E p \in Props : events[j] = "write:" \o p) => j < i
        /\ \A i \in 1..Len(events) :
             events[i] = "resolve"
               => /\ \A j \in 1..Len(events) :
                       (events[j] = "ontick" \/ \E p \in Props : events[j] = "write:" \o p)
                         => j < i
                  /\ anims[s].ontick # "none" /\ ~Has(events, "raise:z")
                       => Has(events, "ontick")
                  /\ anims[s].outcome = Fulfilled("true")
                       => /\ Len(sets) = Len(attributes)
                          /\ i < Len(events) /\ events[Len(events)] = "settle"

\* an animation of two attributes with an ontick function has completed: both
\* properties were set, then ontick was called, then it resolved true
C13_Witness ==
  \E s \in Ids :
    /\ Len(anims[s].attributes) = 2
    /\ anims[s].ontick = "terminate"
    /\ anims[s].events = <<"write:x", "write:y", "ontick", "resolve", "settle">>
    /\ anims[s].outcome = Fulfilled("true")
    /\ parent["x"] = Whole(10) /\ parent["y"] = Whole(5)

\* C14: in a call of an animation's function with percentage p, every
\* attribute that is set is set once and to: `to` itself when p is 1, without
\* a call of mix; from.mix(to, p) for a Color attribute when p is not 1;
\* from + delta * p for a numeric attribute when p is not 1.  No other
\* property of the parent changes in that call.
C14_AttributeWrite ==
  [][\A s \in Ids :
       TickOf(s) =>
         LET events == anims'[s].events
             p == anims'[s].pa
             attributes == anims[s].attributes
         IN  /\ \A i \in 1..Len(attributes) :
                  LET a == attributes[i]
                      mixed == Has(events, "mix:" \o a.attribute)
                  IN  Has(events, "write:" \o a.attribute) =>
                        /\ Cardinality({j \in 1..Len(events) :
                                          events[j] = "write:" \o a.attribute}) = 1
                        /\ p = One => parent'[a.attribute] = a.to /\ ~mixed
                        /\ p # One /\ a.color
                             => parent'[a.attribute] = Mix(a.from, a.to, p) /\ mixed
                        /\ p # One /\ ~a.color
                             => /\ parent'[a.attribute] = Add(a.from, Mul(a.delta, p))
                                /\ ~mixed
             /\ \A q \in Props :
                  ~Has(events, "write:" \o q) => parent'[q] = parent[q]]_vars

\* a Color attribute has been set half-way, by a call of mix
C14_Witness ==
  \E s \in Ids :
    /\ Len(anims[s].attributes) = 1
    /\ anims[s].attributes[1].color
    /\ anims[s].pa # One
    /\ anims[s].events = <<"mix:y", "write:y">>
    /\ parent["y"] = Mix(Color(2), Color(8), anims[s].pa)
    /\ parent["y"] \notin {Color(2), Color(8)}

\* C15: when setting an attribute or ontick raises in the call that reaches
\* the duration, the animation is not settled true by that call: a pending
\* animation is rejected with the error raised, and the resolve(true) that
\* follows the catch block in the same call does not replace the rejection.
C15_FailureStands ==
  [][\A s \in Ids :
       (/\ TickOf(s)
        /\ anims'[s].time >= anims[s].duration
        /\ Has(anims'[s].events, "reject"))
         => /\ Has(anims'[s].events, "resolve")
            /\ anims'[s].outcome # Fulfilled("true")
            /\ anims[s].outcome = Pending
                 => anims'[s].outcome = Rejected(Raised(anims'[s].events))]_vars

\* both kinds of error have been raised in a completing call, each followed by
\* resolve(true), and each animation stays rejected with its error
C15_Witness ==
  \E s, t \in Ids :
    /\ anims[s].events = <<"write:x", "raise:z", "reject", "settle", "resolve">>
    /\ anims[s].time >= anims[s].duration
    /\ anims[s].outcome = Rejected("SetterError")
    /\ anims[t].events = <<"write:x", "ontick", "reject", "settle", "resolve">>
    /\ anims[t].time >= anims[t].duration
    /\ anims[t].outcome = Rejected("HookError")

\* C16: when setting the k-th attribute raises in a call of an animation's
\* function, the attributes before k have the values this call gave them, the
\* attributes after k are not set in this call, ontick is not called in this
\* call, and every property this call did not set keeps the value it had.
C16_PartialUpdate ==
  [][\A s \in Ids :
       TickOf(s) =>
         \A k \in 1..Len(anims[s].attributes) :
           LET attributes == anims[s].attributes
               events == anims'[s].events
               p == anims'[s].pa
           IN  Has(events, "raise:" \o attributes[k].attribute) =>
                 /\ \A i \in 1..(k - 1) :
                      /\ Has(events, "write:" \o attributes[i].attribute)
                      /\ parent'[attributes[i].attribute] =
                           IF p = One THEN attributes[i].to
                           ELSE Add(attributes[i].from, Mul(attributes[i].delta, p))
                 /\ \A i \in (k + 1)..Len(attributes) :
                      /\ ~Has(events, "write:" \o attributes[i].attribute)
                      /\ ~Has(events, "raise:" \o attributes[i].attribute)
                      /\ parent'[attributes[i].attribute] = parent[attributes[i].attribute]
                 /\ ~Has(events, "ontick")
                 /\ \A q \in Props \ {attributes[i].attribute : i \in 1..(k - 1)} :
                      parent'[q] = parent[q]]_vars

\* the second of three attributes raised half-way: the first has this call's
\* value, the third still has the colour an earlier animation gave it
C16_Witness ==
  \E s \in Ids :
    /\ anims[s].events = <<"write:x", "raise:z", "reject", "settle">>
    /\ anims[s].pa \notin {Zero, One}
    /\ parent["x"] = Add(anims[s].attributes[1].from,
                         Mul(anims[s].attributes[1].delta, anims[s].pa))
    /\ parent["x"] # anims[s].attributes[1].from
    /\ parent["y"].k = "color"
    /\ anims[s].outcome = Rejected("SetterError")

\* animation s is a listener of the ticker
Listening(s) == s \in Ids /\ \E i \in 1..Len(ticker) : ticker[i] = s

\* C17: while frames keep coming and queued reactions keep being run, every
\* animation that has added its listener to the ticker eventually settles,
\* has its listener removed, and is no longer the entry of any name,
\* whether it resolved true, resolved false or was rejected.
C17_EventuallyCleaned ==
  \A s \in 1..MaxSessions :
    Listening(s) ~>
      (/\ s \in Ids
       /\ ~Listening(s)
       /\ anims[s].outcome # Pending
       /\ anims[s].promise # Pending
       /\ \A n \in Names : animations[n] # s)

\* a completed, a cancelled and a failed animation have been cleaned up
C17_Witness ==
  /\ ticker = <<>> /\ jobs = <<>>
  /\ \A n \in Names : animations[n] = 0
  /\ \E s, t \in Ids :
       /\ anims[s].name = "X" /\ anims[t].name = "X"
       /\ anims[s].outcome = Fulfilled("false")
       /\ anims[t].outcome \in {Fulfilled("true"), Rejected("SetterError")}
       /\ reported[t] > 0

\* C18 as claimed: an animate call with a name whose entry is a pending
\* animation settles that animation false and, also when the call returns
\* early because every delta is zero, leaves no entry for the name when it
\* returns.
C18_CancelledAndUnregistered ==
  [][\A req \in Requests :
       (/\ returned' \in {"promise", "undefined"}
        /\ req.name # NoName
        /\ ZeroDeltas(req)
        /\ animations[req.name] # 0
        /\ anims[animations[req.name]].outcome = Pending
        /\ Animate(req))
         => /\ anims'[animations[req.name]].outcome = Fulfilled("false")
            /\ animations'[req.name] = 0]_vars

\* C19: an animate call with an empty attribute list does not return early:
\* it constructs a pending animation, adds its listener to the ticker and,
\* when named, makes it the entry of the name; a call of the listener leaves
\* the animation pending while its time is below the duration and resolves
\* it true the first time its time reaches the duration; no property is set.
C19_EmptyListRuns ==
  /\ [][\A req \in Requests :
          (/\ returned' \in {"promise", "undefined"}
           /\ req.attributes = <<>>
           /\ Animate(req))
            => /\ returned' = "promise"
               /\ Len(anims') = Len(anims) + 1
               /\ anims'[Len(anims')].outcome = Pending
               /\ anims'[Len(anims')].attributes = <<>>
               /\ ticker' = Append(ticker, Len(anims'))
               /\ req.name # NoName => animations'[req.name] = Len(anims')]_vars
  /\ [][\A s \in Ids :
          (TickOf(s) /\ anims[s].attributes = <<>> /\ anims[s].outcome = Pending)
            => /\ anims'[s].time < anims[s].duration => anims'[s].outcome = Pending
               /\ (/\ anims'[s].time >= anims[s].duration
                   /\ ~Has(anims'[s].events, "reject")
                   /\ anims[s].ontick = "none" \/ anims[s].name # HookName)
                    => anims'[s].outcome = Fulfilled("true")
               /\ parent' = parent]_vars

\* an animation of no attribute was called below its duration, stayed pending,
\* and resolved true in a later frame
C19_Witness ==
  \E s \in Ids :
    /\ anims[s].attributes = <<>>
    /\ anims[s].outcome = Fulfilled("true")
    /\ anims[s].events = <<"resolve", "settle">>
    /\ reported[s] >= anims[s].duration
    /\ reported[s] - elapsedMS > 0
    /\ reported[s] - elapsedMS < anims[s].duration

\* C20 as claimed: a POST to the license view in its EULA step that carries
\* `decline` calls applyLicense(null), then app.quit() or process.exit(), and
\* never sign(); sign() is called only by a POST that does not carry `decline`.
C20_DeclineNeverSigns ==
  /\ (view.request.method = "post" /\ view.request.step = "eula" /\ view.request.decline)
       => /\ view.calls # <<>>
          /\ view.calls[1] = "applyLicense:null"
          /\ Has(view.calls, "app.quit") \/ Has(view.calls, "process.exit")
          /\ ~Has(view.calls, "sign")
  /\ Has(view.calls, "sign") => view.request.method = "post" /\ ~view.request.decline

====
